---- MODULE Spec2Model ----
(***************************************************************************)
(* Model of the go-price package: the Price value type (price.go) built on *)
(* math/big.Float, its currency guard, the rounding engine, the split      *)
(* engine, and the Charges ledger keyed by ChargeQualifier.                *)
(*                                                                         *)
(* Numbers.  A big.Float is a binary floating point number m * 2^e with a  *)
(* mantissa of at most prec bits, rounded to nearest even after every      *)
(* operation.  TLC integers are 32 bit, so the widths are scaled: IntBits  *)
(* stands for the 64 bits of int64 (and of a big.Float made by SetInt64),  *)
(* FloatBits for the 53 bit mantissa of float64 (and of a big.Float made   *)
(* by big.NewFloat).  Every rounding step of the code is kept, at the      *)
(* scaled width.                                                           *)
(***************************************************************************)
EXTENDS Integers, Sequences, FiniteSets, TLC

VARIABLES
    arch,     \* the build's architecture: decides an out-of-range float64 -> int64 conversion
    op,       \* the Price operation called last
    arg,      \* its receiver and arguments
    ret,      \* what it returned
    heap,     \* the Go maps allocated so far: map id -> (ChargeQualifier -> Charge)
    ledgers,  \* the Charges values held by the caller: name -> map id (0: nil map)
    before,   \* the entries observable through each Charges value before the last ledger call
    lcall,    \* the ledger operation called last
    lret,     \* what the last ledger lookup returned
    steps     \* number of ledger calls made

vars == <<arch, op, arg, ret, heap, ledgers, before, lcall, lret, steps>>

priceVars == <<arch, op, arg, ret>>

ledgerVars == <<heap, ledgers, before, lcall, lret, steps>>

\* width of int64 and precision of new(big.Float).SetInt64 (64 in the code)
IntBits == 20
\* width of the float64 mantissa and precision of big.NewFloat (53 in the code)
FloatBits == 16

----------------------------------------------------------------------------
(* Dyadic numbers [m, e] = m * 2^e, normalised: m odd, or m = 0 and e = 0. *)

AbsI(n) == IF n < 0 THEN -n ELSE n

SignI(n) == IF n < 0 THEN -1 ELSE IF n > 0 THEN 1 ELSE 0

MaxI(a, b) == IF a >= b THEN a ELSE b

MinI(a, b) == IF a <= b THEN a ELSE b

RECURSIVE BitLen(_)
BitLen(n) == IF n = 0 THEN 0 ELSE 1 + BitLen(n \div 2)

RECURSIVE Norm(_, _)
Norm(m, e) ==
    IF m = 0 THEN [m |-> 0, e |-> 0]
    ELSE IF m % 2 = 0 THEN Norm(m \div 2, e + 1)
    ELSE [m |-> m, e |-> e]

DZero == [m |-> 0, e |-> 0]

DInt(n) == Norm(n, 0)

\* position of the most significant bit: 2^(Msb-1) <= |x| < 2^Msb
Msb(x) == BitLen(AbsI(x.m)) + x.e

\* a >= 0 shifted right by s bits, rounded to nearest, ties to even
RoundShift(a, s) ==
    IF s <= 0 THEN a * (2 ^ (-s))
    ELSE LET q == a \div (2 ^ s)
             r == a % (2 ^ s)
             half == 2 ^ (s - 1)
         IN  IF r > half \/ (r = half /\ q % 2 = 1) THEN q + 1 ELSE q

\* m * 2^e rounded to a mantissa of P bits (big.Float's ToNearestEven)
RoundTo(P, m, e) ==
    LET a == AbsI(m)
        s == BitLen(a) - P
    IN  IF m = 0 THEN DZero
        ELSE IF s <= 0 THEN Norm(m, e)
        ELSE Norm(SignI(m) * RoundShift(a, s), e + s)

DNeg(x) == [m |-> -x.m, e |-> x.e]

DAbs(x) == [m |-> AbsI(x.m), e |-> x.e]

\* x brought to exponent base: the integer part v of x / 2^base (truncated
\* toward zero) and a sticky flag st for the bits cut off
Aligned(x, base) ==
    IF x.e >= base
    THEN [v |-> x.m * (2 ^ (x.e - base)), st |-> 0]
    ELSE LET a == AbsI(x.m)
             d == 2 ^ MinI(base - x.e, 30)
         IN  [v |-> SignI(x.m) * (a \div d),
              st |-> IF a % d # 0 THEN SignI(x.m) ELSE 0]

\* x + y rounded to P bits.  The operands are aligned in a window of P + 3
\* bits below the leading bit; what lies below is kept as a sticky half unit.
DAdd(P, x, y) ==
    IF x.m = 0 THEN RoundTo(P, y.m, y.e)
    ELSE IF y.m = 0 THEN RoundTo(P, x.m, x.e)
    ELSE LET hi == MaxI(Msb(x), Msb(y))
             base == MaxI(MinI(x.e, y.e), hi - P - 3)
             ax == Aligned(x, base)
             ay == Aligned(y, base)
         IN  RoundTo(P, 2 * (ax.v + ay.v) + ax.st + ay.st, base - 1)

DSub(P, x, y) == DAdd(P, x, DNeg(y))

DMul(P, x, y) == RoundTo(P, x.m * y.m, x.e + y.e)

\* x / y rounded to P bits (y # 0): a quotient of at least P + 2 bits and a
\* sticky bit for the remainder
DQuo(P, x, y) ==
    IF x.m = 0 THEN DZero
    ELSE LET ax == AbsI(x.m)
             ay == AbsI(y.m)
             k == MaxI(0, P + 2 + BitLen(ay) - BitLen(ax))
             n == ax * (2 ^ k)
             q == n \div ay
             st == IF n % ay # 0 THEN 1 ELSE 0
         IN  RoundTo(P, SignI(x.m) * SignI(y.m) * (2 * q + st), x.e - y.e - k - 1)

\* sign of x - y, as big.Float.Cmp and the float64 comparisons
DCmp(x, y) ==
    LET sx == SignI(x.m)
        sy == SignI(y.m)
    IN  IF sx # sy THEN (IF sx < sy THEN -1 ELSE 1)
        ELSE IF sx = 0 THEN 0
        ELSE IF Msb(x) # Msb(y)
             THEN (IF Msb(x) < Msb(y) THEN -sx ELSE sx)
        ELSE LET base == MinI(x.e, y.e)
             IN  SignI(x.m * (2 ^ (x.e - base)) - y.m * (2 ^ (y.e - base)))

\* integer part toward zero (math.Modf, int64 conversion)
DTrunc(x) ==
    IF x.e >= 0 THEN x.m * (2 ^ x.e)
    ELSE IF -x.e >= BitLen(AbsI(x.m)) THEN 0
    ELSE SignI(x.m) * (AbsI(x.m) \div (2 ^ (-x.e)))

\* fractional part, with the sign of x (math.Modf)
DFrac(x) ==
    IF x.e >= 0 THEN DZero
    ELSE IF -x.e >= BitLen(AbsI(x.m)) THEN x
    ELSE Norm(SignI(x.m) * (AbsI(x.m) % (2 ^ (-x.e))), x.e)

\* math.Round: nearest integer, halves away from zero
DRound(x) ==
    LET t == DTrunc(x)
        f == DAbs(DFrac(x))
    IN  IF DCmp(f, [m |-> 1, e |-> -1]) >= 0 THEN t + SignI(x.m) ELSE t

\* the float64 nearest to the decimal literal num/den
Lit(num, den) == DQuo(FloatBits, DInt(num), DInt(den))

----------------------------------------------------------------------------
(* big.Float values: [prec, m, e].  The receiver z of every big.Float      *)
(* operation in price.go is a fresh value (prec 0), so the result takes    *)
(* the larger precision of the operands.                                   *)

BF(P, x) == [prec |-> P, m |-> x.m, e |-> x.e]

Val(x) == [m |-> x.m, e |-> x.e]

\* the zero value of big.Float (prec 0), as in Price{currency: c}
BFZeroValue == BF(0, DZero)

\* big.NewFloat(f)
BFNewFloat(f) == BF(FloatBits, RoundTo(FloatBits, f.m, f.e))

\* new(big.Float).SetInt64(n)
BFSetInt64(n) == BF(IntBits, RoundTo(IntBits, n, 0))

BFAdd(x, y) ==
    LET P == MaxI(x.prec, y.prec) IN BF(P, DAdd(P, Val(x), Val(y)))

BFSub(x, y) ==
    LET P == MaxI(x.prec, y.prec) IN BF(P, DSub(P, Val(x), Val(y)))

BFMul(x, y) ==
    LET P == MaxI(x.prec, y.prec) IN BF(P, DMul(P, Val(x), Val(y)))

BFQuo(x, y) ==
    LET P == MaxI(x.prec, y.prec) IN BF(P, DQuo(P, Val(x), Val(y)))

BFAbs(x) == BF(x.prec, DAbs(Val(x)))

BFCmp(x, y) == DCmp(Val(x), Val(y))

\* x.Float64(): the nearest float64
BFFloat64(x) == RoundTo(FloatBits, x.m, x.e)

----------------------------------------------------------------------------
(* int64 and the float64 -> int64 conversion *)

MaxInt64 == 2 ^ (IntBits - 1) - 1

MinInt64 == -(2 ^ (IntBits - 1))

\* two's complement wrap-around of int64 arithmetic
Wrap64(n) == ((n - MinInt64) % (2 ^ IntBits)) + MinInt64

InInt64Range(f) ==
    \/ Msb(f) <= IntBits - 1
    \/ f = [m |-> -1, e |-> IntBits - 1]

\* int64(f) for a float64 f: truncation toward zero; out of range the result
\* is implementation-dependent: amd64 yields MinInt64, arm64 saturates
Int64Of(f) ==
    IF InInt64Range(f) THEN DTrunc(f)
    ELSE IF arch = "amd64" THEN MinInt64
    ELSE IF f.m < 0 THEN MinInt64 ELSE MaxInt64

\* float64(math.MaxInt64): rounds up to 2^63
FloatMaxInt64 == RoundTo(FloatBits, 1, IntBits - 1)

----------------------------------------------------------------------------
(* Price *)

RoundingModeFloor == "floor"

RoundingModeCeil == "ceil"

RoundingModeHalfUp == "halfup"

RoundingModeHalfDown == "halfdown"

Price(a, c) == [amount |-> a, currency |-> c]

NewFromFloat(f, c) == Price(BFNewFloat(f), c)

NewZero(c) == Price(BFSetInt64(0), c)

NewFromInt(n, precision, c) ==
    IF precision = 0 THEN Price(BFSetInt64(0), c)
    ELSE Price(BFQuo(BFSetInt64(n), BFSetInt64(precision)), c)

Equal(p, cmp) ==
    IF p.currency # cmp.currency THEN FALSE
    ELSE BFCmp(p.amount, cmp.amount) = 0

\* big.NewFloat(0.000000001): 1e-9 at the float64 width
Tolerance == BFNewFloat([m |-> 2199, e |-> -41])

LikelyEqual(p, cmp) ==
    IF p.currency # cmp.currency THEN FALSE
    ELSE BFCmp(BFAbs(BFSub(p.amount, cmp.amount)), Tolerance) = -1

IsLessThenValue(p, a) == BFCmp(p.amount, a) = -1

IsNegative(p) == IsLessThenValue(p, BFNewFloat(DZero))

IsZero(p) ==
    \/ LikelyEqual(p, NewZero(p.currency))
    \/ LikelyEqual(p, NewFromFloat(DZero, p.currency))

\* a guard that forgives a zero receiver only
currencyGuardReceiverOnly(p, check) ==
    IF p.currency = check.currency
    THEN [price |-> Price(BFZeroValue, check.currency), err |-> FALSE]
    ELSE IF IsZero(p)
    THEN [price |-> Price(BFZeroValue, check.currency), err |-> FALSE]
    ELSE [price |-> NewZero(p.currency), err |-> TRUE]

\* the guard's outcome: the fresh price the sum is written to, or an error
currencyGuard(p, check) ==
    IF p.currency = check.currency
    THEN [price |-> Price(BFZeroValue, check.currency), err |-> FALSE]
    ELSE IF IsZero(p)
    THEN [price |-> Price(BFZeroValue, check.currency), err |-> FALSE]
    ELSE IF IsZero(check)
    THEN [price |-> Price(BFZeroValue, p.currency), err |-> FALSE]
    ELSE [price |-> NewZero(p.currency), err |-> TRUE]

Add(p, add) ==
    LET g == currencyGuard(p, add)
    IN  IF g.err THEN g
        ELSE [price |-> Price(BFAdd(p.amount, add.amount), g.price.currency),
              err |-> FALSE]

Sub(p, sub) ==
    LET g == currencyGuard(p, sub)
    IN  IF g.err THEN g
        ELSE [price |-> Price(BFSub(p.amount, sub.amount), g.price.currency),
              err |-> FALSE]

Inverse(p) == Price(BFMul(p.amount, BFNewFloat(DInt(-1))), p.currency)

Multiply(p, qty) == Price(BFMul(p.amount, BFSetInt64(qty)), p.currency)

precisionF(precision) == BFSetInt64(precision)

\* strings.ToLower on the currency codes of the model
ToLower(c) ==
    CASE c = "Miles" -> "miles"
      [] c = "POINTS" -> "points"
      [] c = "EUR" -> "eur"
      [] c = "USD" -> "usd"
      [] OTHER -> c

\* a policy lookup that compares the currency code as it is written
payableRoundingPrecisionExact(p) ==
    IF p.currency = "miles" \/ p.currency = "points"
    THEN [mode |-> RoundingModeFloor, precision |-> 1]
    ELSE [mode |-> RoundingModeHalfUp, precision |-> 100]

payableRoundingPrecision(p) ==
    IF ToLower(p.currency) = "miles" \/ ToLower(p.currency) = "points"
    THEN [mode |-> RoundingModeFloor, precision |-> 1]
    ELSE [mode |-> RoundingModeHalfUp, precision |-> 100]

\* math.Round(fractionalPart*1000) / 100 * float64(negative)
ValueAfterPrecision(fractionalPart, negative) ==
    LET scaled == RoundTo(FloatBits, fractionalPart.m * 125, fractionalPart.e + 3)
        q == DQuo(FloatBits, DInt(DRound(scaled)), DInt(100))
    IN  IF negative = -1 THEN DNeg(q) ELSE q

\* GetPayableByRoundingMode with a Ceil that also rounds up a zero fraction
GetPayableByRoundingModeCeilInclusive(p, mode, precision) ==
    LET negative == IF IsNegative(p) THEN -1 ELSE 1
        amountTruncatedFloat == BFFloat64(BFMul(p.amount, precisionF(precision)))
        fractionalPart == DFrac(amountTruncatedFloat)
        amountTruncatedInt == Int64Of(amountTruncatedFloat)
        valueAfterPrecision == ValueAfterPrecision(fractionalPart, negative)
        bump ==
            CASE mode = RoundingModeCeil ->
                     negative = 1 /\ DCmp(valueAfterPrecision, DZero) >= 0
              [] mode = RoundingModeHalfUp ->
                     DCmp(valueAfterPrecision, DInt(5)) >= 0
              [] mode = RoundingModeHalfDown ->
                     DCmp(valueAfterPrecision, DInt(5)) > 0
              [] mode = RoundingModeFloor ->
                     negative = -1 /\ DCmp(valueAfterPrecision, DZero) > 0
              [] OTHER -> FALSE
        rounded == IF bump THEN Wrap64(amountTruncatedInt + negative)
                   ELSE amountTruncatedInt
    IN  IF DCmp(amountTruncatedFloat, FloatMaxInt64) >= 0
        THEN Price(p.amount, p.currency)
        ELSE Price(BFQuo(BFSetInt64(rounded), precisionF(precision)), p.currency)

GetPayableByRoundingMode(p, mode, precision) ==
    LET negative == IF IsNegative(p) THEN -1 ELSE 1
        amountTruncatedFloat == BFFloat64(BFMul(p.amount, precisionF(precision)))
        fractionalPart == DFrac(amountTruncatedFloat)
        amountTruncatedInt == Int64Of(amountTruncatedFloat)
        valueAfterPrecision == ValueAfterPrecision(fractionalPart, negative)
        bump ==
            CASE mode = RoundingModeCeil ->
                     negative = 1 /\ DCmp(valueAfterPrecision, DZero) > 0
              [] mode = RoundingModeHalfUp ->
                     DCmp(valueAfterPrecision, DInt(5)) >= 0
              [] mode = RoundingModeHalfDown ->
                     DCmp(valueAfterPrecision, DInt(5)) > 0
              [] mode = RoundingModeFloor ->
                     negative = -1 /\ DCmp(valueAfterPrecision, DZero) > 0
              [] OTHER -> FALSE
        rounded == IF bump THEN Wrap64(amountTruncatedInt + negative)
                   ELSE amountTruncatedInt
    IN  IF DCmp(amountTruncatedFloat, FloatMaxInt64) >= 0
        THEN Price(p.amount, p.currency)
        ELSE Price(BFQuo(BFSetInt64(rounded), precisionF(precision)), p.currency)

GetPayable(p) ==
    LET rp == payableRoundingPrecision(p)
    IN  GetPayableByRoundingMode(p, rp.mode, rp.precision)

IsPayable(p) == Equal(GetPayable(p), p)

\* significant decimal digits of big.Float.String(), which is Text('g', 10);
\* scaled with the mantissa widths
SigDigits == 3

\* n / den brought to SigDigits digits before the point: (n / den) * 10^-x
RECURSIVE DecScale(_, _, _)
DecScale(n, den, x) ==
    IF n \div den >= 10 ^ SigDigits THEN DecScale(n, den * 10, x + 1)
    ELSE IF n \div den < 10 ^ (SigDigits - 1) THEN DecScale(n * 10, den, x - 1)
    ELSE [n |-> n, den |-> den, x |-> x]

\* n / den rounded to an integer, ties to even (the decimal rounding of Text)
DecRound(n, den) ==
    LET q == n \div den
        r == n % den
    IN  IF 2 * r > den \/ (2 * r = den /\ q % 2 = 1) THEN q + 1 ELSE q

\* trailing zeros of the digits removed, as %g prints them
RECURSIVE DecNorm(_, _)
DecNorm(d, x) ==
    IF d = 0 THEN [d |-> 0, x |-> 0]
    ELSE IF d % 10 = 0 THEN DecNorm(d \div 10, x + 1)
    ELSE [d |-> d, x |-> x]

\* x.String(): the decimal d * 10^x of at most SigDigits digits nearest to x
BFString(x) ==
    IF x.m = 0 THEN [d |-> 0, x |-> 0]
    ELSE LET s == DecScale(AbsI(x.m) * (2 ^ MaxI(x.e, 0)), 2 ^ MaxI(-x.e, 0), 0)
         IN  DecNorm(SignI(x.m) * DecRound(s.n, s.den), s.x)

\* new(big.Float).Parse(text, 10): the receiver has prec 0, so the decimal is
\* rounded to 64 bits
BFParse(t) ==
    IF t.x >= 0 THEN BFSetInt64(t.d * (10 ^ t.x))
    ELSE BFQuo(BFSetInt64(t.d), BFSetInt64(10 ^ (-t.x)))

\* the priceJSON written by MarshalText (MarshalJSON and MarshalBinary
\* delegate to it)
MarshalText(p) == [Amount |-> BFString(p.amount), Currency |-> p.currency]

\* UnmarshalText on a priceJSON; the amounts String() writes always parse
UnmarshalText(pj) == Price(BFParse(pj.Amount), pj.Currency)

\* Go's integer division and remainder truncate toward zero
GoDiv(a, b) == SignI(a) * SignI(b) * (AbsI(a) \div AbsI(b))

GoMod(a, b) == a - b * GoDiv(a, b)

\* shares of which the last (amountToMatchInt % count) get the unit more
SplitSharesLast(amountToMatchInt, count, negative, precision, currency) ==
    [i \in 1..count |->
        NewFromInt(
            (IF negative THEN -1 ELSE 1)
            * (GoDiv(amountToMatchInt, count)
               + IF i > count - GoMod(amountToMatchInt, count) THEN 1 ELSE 0),
            precision, currency)]

\* the shares of amountToMatchInt: the first (amountToMatchInt % count) get one
\* unit more; each is negated again for a negative price
SplitShares(amountToMatchInt, count, negative, precision, currency) ==
    [i \in 1..count |->
        NewFromInt(
            IF negative
            THEN Wrap64(-(IF i <= GoMod(amountToMatchInt, count)
                          THEN Wrap64(GoDiv(amountToMatchInt, count) + 1)
                          ELSE GoDiv(amountToMatchInt, count)))
            ELSE IF i <= GoMod(amountToMatchInt, count)
                 THEN Wrap64(GoDiv(amountToMatchInt, count) + 1)
                 ELSE GoDiv(amountToMatchInt, count),
            precision, currency)]

\* the amount that is split: the payable amount, inverted when negative
SplitAmount(p) ==
    IF IsNegative(p) THEN Inverse(GetPayable(p)).amount ELSE GetPayable(p).amount

\* a split that rejects negative counts only
SplitInPayablesNonNegative(p, count) ==
    IF count < 0 THEN [parts |-> <<>>, err |-> TRUE]
    ELSE [parts |->
             SplitShares(
                 Int64Of(BFFloat64(BFMul(SplitAmount(p),
                     precisionF(payableRoundingPrecision(p).precision)))),
                 count, IsNegative(p), payableRoundingPrecision(p).precision,
                 p.currency),
          err |-> FALSE]

SplitInPayables(p, count) ==
    IF count <= 0 THEN [parts |-> <<>>, err |-> TRUE]
    ELSE [parts |->
             SplitShares(
                 Int64Of(BFFloat64(BFMul(SplitAmount(p),
                     precisionF(payableRoundingPrecision(p).precision)))),
                 count, IsNegative(p), payableRoundingPrecision(p).precision,
                 p.currency),
          err |-> FALSE]

Clone(p) == Price(p.amount, p.currency)

\* SumAll(prices...): the left-to-right fold with Add, from a clone of the first
RECURSIVE SumFrom(_, _, _)
SumFrom(result, prices, i) ==
    IF i > Len(prices) THEN [price |-> result, err |-> FALSE]
    ELSE LET r == Add(result, prices[i])
         IN  IF r.err THEN r ELSE SumFrom(r.price, prices, i + 1)

SumAll(prices) ==
    IF Len(prices) = 0 THEN [price |-> NewZero(""), err |-> TRUE]
    ELSE SumFrom(Clone(prices[1]), prices, 2)

----------------------------------------------------------------------------
(* Charge, ChargeQualifier and Charges.  A Go map is a set of entries      *)
(* [key, charge] with unique keys, held in the heap; a Charges value holds *)
(* the id of its map, 0 for the nil map.  Copying a Charges value (a value *)
(* receiver, a return value) copies the id, not the map.                   *)

ChargeTypeGiftCard == "giftcard"

ChargeTypeMain == "main"

Charge(price, value, type, reference) ==
    [Price |-> price, Value |-> value, Type |-> type, Reference |-> reference]

\* the Go zero value Price{}
ZeroValuePrice == Price(BFZeroValue, "")

\* the Go zero value Charge{}
ZeroValueCharge == Charge(ZeroValuePrice, ZeroValuePrice, "", "")

ChargeQualifier(type, reference) == [Type |-> type, Reference |-> reference]

\* Charge.Add
ChargeAdd(p, add) ==
    IF p.Type # add.Type THEN [charge |-> ZeroValueCharge, err |-> TRUE]
    ELSE IF Add(p.Price, add.Price).err THEN [charge |-> ZeroValueCharge, err |-> TRUE]
    ELSE IF Add(p.Value, add.Value).err THEN [charge |-> ZeroValueCharge, err |-> TRUE]
    ELSE [charge |-> [p EXCEPT !.Price = Add(p.Price, add.Price).price,
                               !.Value = Add(p.Value, add.Value).price],
          err |-> FALSE]

\* Charge.GetPayable
ChargeGetPayable(p) ==
    [p EXCEPT !.Value = GetPayable(p.Value), !.Price = GetPayable(p.Price)]

\* Charge.Mul
ChargeMul(p, qty) ==
    [p EXCEPT !.Price = Multiply(p.Price, qty), !.Value = Multiply(p.Value, qty)]

MapKeys(m) == {x.key : x \in m}

MapHas(m, k) == k \in MapKeys(m)

MapAt(m, k) == (CHOOSE x \in m : x.key = k).charge

\* m[k] = c
MapPut(m, k, c) == {x \in m : x.key # k} \cup {[key |-> k, charge |-> c]}

\* the merge of Charges.Add and Charges.AddCharge for one key: the error of
\* Charge.Add is dropped, chargeSum is then Charge{}
MergeCharge(m, k, c) ==
    IF MapHas(m, k)
    THEN MapPut(m, k, ChargeGetPayable(ChargeAdd(MapAt(m, k), c).charge))
    ELSE MapPut(m, k, c)

\* the loop of Charges.Add over toadd's map: each key is visited once and
\* only its own entry is written, so the order of the visits does not matter
MergeAll(m, toadd) ==
    {x \in m : x.key \notin MapKeys(toadd)}
    \cup {[key |-> y.key,
           charge |-> IF MapHas(m, y.key)
                      THEN ChargeGetPayable(ChargeAdd(MapAt(m, y.key), y.charge).charge)
                      ELSE y.charge] : y \in toadd}

\* the loop of Charges.Mul
MulAll(m, qty) == {[key |-> x.key, charge |-> ChargeMul(x.charge, qty)] : x \in m}

\* addChargeQualifier for a map with the single key chargeType
addChargeQualifier(chargeType, charge) ==
    {[key |-> ChargeQualifier(chargeType, charge.Reference), charge |-> charge]}

\* the map a Charges value refers to
MapOf(id) == IF id = 0 THEN {} ELSE heap[id]

\* what GetAllCharges shows of the Charges value held in variable n
Observable(n) == MapOf(ledgers[n])

\* a test of the stored charges' own types
HasTypeOfCharge(m, ctype) == \E x \in m : x.charge.Type = ctype

\* HasType, GetByType, GetByChargeQualifier on a map
HasType(m, ctype) == \E x \in m : x.key.Type = ctype

HasChargeQualifier(m, qualifier) == MapHas(m, qualifier)

GetByChargeQualifier(m, qualifier) ==
    IF ~HasChargeQualifier(m, qualifier)
    THEN [charge |-> ZeroValueCharge, found |-> FALSE]
    ELSE [charge |-> MapAt(m, qualifier), found |-> TRUE]

\* the entries GetByType and GetAllByType select
GetAllByType(m, ctype) == {x \in m : x.key.Type = ctype}

\* the orders in which a range over a Go map can visit the entries S
Orders(S) ==
    {o \in [1..Cardinality(S) -> S] : \A i, j \in 1..Cardinality(S) : i # j => o[i] # o[j]}

\* the loop of GetByType, visiting the entries of the type in the given
\* order: the error of Charge.Add is dropped, result is then Charge{}
RECURSIVE GetByTypeFrom(_, _, _)
GetByTypeFrom(result, order, i) ==
    IF i > Len(order) THEN result
    ELSE GetByTypeFrom(ChargeAdd(result, order[i].charge).charge, order, i + 1)

GetByType(m, ctype, order) ==
    IF ~HasType(m, ctype)
    THEN [charge |-> ZeroValueCharge, found |-> FALSE]
    ELSE [charge |-> GetByTypeFrom(Charge(ZeroValuePrice, ZeroValuePrice, ctype, ""), order, 1),
          found |-> TRUE]

GetByChargeQualifierForced(m, qualifier) ==
    IF ~GetByChargeQualifier(m, qualifier).found
    THEN ZeroValueCharge
    ELSE GetByChargeQualifier(m, qualifier).charge

GetByTypeForced(m, ctype, order) ==
    IF ~GetByType(m, ctype, order).found
    THEN ZeroValueCharge
    ELSE GetByType(m, ctype, order).charge

----------------------------------------------------------------------------
(* The prices the operations are called with: built by the package's       *)
(* constructors, as its tests build them.  A run is one call from the idle *)
(* state, and for Add a following Sub of the same operand.                 *)

\* largest smallest-unit amount given to NewFromInt
MaxUnits == 12
\* largest count given to SplitInPayables
MaxCount == 3

Currencies == {"EUR", "USD", "miles"}

\* float64 amounts: literals of the tests (7.5, 2.5, 1.0, 12.34567, 12.456,
\* 152.99, 0.119), amounts whose remainder at precision 1 is within 1/4096 of
\* a half or of zero (7.49976, 7.50024, 1.00024), and an amount below the
\* tolerance of LikelyEqual (2^-31)
FloatMagnitudes ==
    {Lit(75, 10), Lit(25, 10), Lit(1, 1), Lit(1234567, 100000),
     Lit(12456, 1000), Lit(15299, 100), Lit(119, 1000)}
    \cup {[m |-> 7 * 4096 + 2047, e |-> -12], [m |-> 7 * 4096 + 2049, e |-> -12],
          [m |-> 4097, e |-> -12], [m |-> 1, e |-> -31]}

FloatInputs == FloatMagnitudes \cup {DNeg(f) : f \in FloatMagnitudes} \cup {DZero}

RoundInputs == {NewFromFloat(f, "EUR") : f \in FloatInputs}

IntInputs ==
    {NewFromInt(n, 100, c) : n \in -MaxUnits..MaxUnits, c \in {"EUR", "USD"}}
    \cup {NewFromInt(n, 1, "miles") : n \in -MaxUnits..MaxUnits}

Prices ==
    {NewFromFloat(f, c) : f \in FloatInputs, c \in {"EUR", "USD"}}
    \cup IntInputs \cup {NewZero(c) : c \in Currencies} \cup {ZeroValuePrice}

\* prices in the loyalty currencies, in the spellings "miles", "Miles",
\* "points" and "POINTS", with amounts that Floor and HalfUp round apart
PolicyInputs ==
    {NewFromFloat(f, c) : f \in {Lit(75, 10), DNeg(Lit(75, 10)), Lit(12456, 1000)},
                          c \in {"miles", "Miles", "points", "POINTS"}}

\* amounts around the guard of GetPayableByRoundingMode: 2^(IntBits-1), an
\* amount above it, and one that passes it at precision 100 only
GuardInputs ==
    {NewFromFloat(f, "EUR") :
        f \in {[m |-> 1, e |-> IntBits - 1], [m |-> -1, e |-> IntBits - 1],
               [m |-> 5, e |-> IntBits - 3], [m |-> -5, e |-> IntBits - 3],
               [m |-> 3, e |-> IntBits - 7], [m |-> -3, e |-> IntBits - 7],
               [m |-> 3, e |-> IntBits - 3], [m |-> -3, e |-> IntBits - 3]}}
    \cup {NewFromInt(n, 1, "EUR") :
              n \in {2 ^ (IntBits - 2) + 1, -(2 ^ (IntBits - 2)) - 1}}

Modes == {RoundingModeFloor, RoundingModeCeil, RoundingModeHalfUp,
          RoundingModeHalfDown}

Precisions == {1, 10, 100}

\* largest number of prices given to SumAll
\* prices that are encoded and decoded: halves, tenths as float64 and as a
\* quotient of integers, whole numbers of more than SigDigits digits
MarshalInputs ==
    {ZeroValuePrice, NewZero("EUR"),
     NewFromFloat(Lit(75, 10), "EUR"), NewFromFloat(Lit(-75, 10), "EUR"),
     NewFromFloat(Lit(11, 10), "EUR"), NewFromFloat(Lit(12456, 1000), "USD"),
     NewFromInt(11, 10, "EUR"), NewFromInt(-3, 1, "miles"),
     NewFromInt(250, 1, "USD"), NewFromInt(12345, 1, "EUR")}

MaxSummands == 3

\* the prices given to SumAll
SumInputs ==
    {NewFromInt(1, 100, "EUR"), NewFromInt(2, 100, "EUR"),
     NewFromFloat(Lit(12456, 1000), "EUR"), NewFromInt(5, 100, "USD"),
     NewZero("USD"), NewZero("EUR"), NewFromInt(-1, 100, "EUR")}

SumArguments == UNION {[1..n -> SumInputs] : n \in 0..MaxSummands}

NoArg == [p |-> ZeroValuePrice, q |-> ZeroValuePrice, mode |-> "",
          precision |-> 0, count |-> 0, prices |-> <<>>,
          reordered |-> <<>>]

NoRet == [price |-> ZeroValuePrice, err |-> FALSE, parts |-> <<>>, ok |-> FALSE,
          first |-> [price |-> ZeroValuePrice, err |-> FALSE]]

PriceInit ==
    /\ arch \in {"amd64", "arm64"}
    /\ op = "init"
    /\ arg = NoArg
    /\ ret = NoRet

LedgerNames == {"L", "L2"}

NoCall == [op |-> "init", src |-> "L", dst |-> "L", other |-> "L",
           charge |-> ZeroValueCharge, key |-> "", qty |-> 0]

NoLookup == [charge |-> ZeroValueCharge, found |-> FALSE, forced |-> ZeroValueCharge,
             order |-> <<>>]

LedgerIdle ==
    /\ heap = <<>>
    /\ ledgers = [n \in LedgerNames |-> 0]
    /\ before = [n \in LedgerNames |-> {}]
    /\ lcall = NoCall
    /\ lret = NoLookup
    /\ steps = 0

Init == PriceInit /\ LedgerIdle

\* r, err := p.Add(q)
CallAdd ==
    /\ op = "init"
    /\ \E p \in Prices, q \in Prices :
            /\ op' = "Add"
            /\ arg' = [NoArg EXCEPT !.p = p, !.q = q]
            /\ ret' = [NoRet EXCEPT !.price = Add(p, q).price, !.err = Add(p, q).err]
            /\ UNCHANGED <<arch, ledgerVars>>

\* r, err := p.Sub(q)
CallSub ==
    /\ op = "init"
    /\ \E p \in Prices, q \in Prices :
            /\ op' = "Sub"
            /\ arg' = [NoArg EXCEPT !.p = p, !.q = q]
            /\ ret' = [NoRet EXCEPT !.price = Sub(p, q).price, !.err = Sub(p, q).err]
            /\ UNCHANGED <<arch, ledgerVars>>

\* after s, _ := p.Add(q): r, err := s.Sub(q)
CallSubBack ==
    /\ op = "Add"
    /\ ~ret.err
    /\ op' = "AddSub"
    /\ ret' = [NoRet EXCEPT !.price = Sub(ret.price, arg.q).price,
                            !.err = Sub(ret.price, arg.q).err]
    /\ UNCHANGED <<arg, arch, ledgerVars>>

\* r := p.GetPayableByRoundingMode(mode, precision)
CallGetPayableByRoundingMode ==
    /\ op = "init"
    /\ \E p \in RoundInputs \cup GuardInputs, mode \in Modes, precision \in Precisions :
            /\ op' = "GetPayableByRoundingMode"
            /\ arg' = [NoArg EXCEPT !.p = p, !.mode = mode, !.precision = precision]
            /\ ret' = [NoRet EXCEPT !.price = GetPayableByRoundingMode(p, mode, precision)]
            /\ UNCHANGED <<arch, ledgerVars>>

\* r := p.GetPayable()
CallGetPayable ==
    /\ op = "init"
    /\ \E p \in Prices \cup PolicyInputs \cup GuardInputs :
            /\ op' = "GetPayable"
            /\ arg' = [NoArg EXCEPT !.p = p]
            /\ ret' = [NoRet EXCEPT !.price = GetPayable(p)]
            /\ UNCHANGED <<arch, ledgerVars>>

\* parts, err := p.SplitInPayables(count)
CallSplitInPayables ==
    /\ op = "init"
    /\ \E p \in Prices, count \in -1..MaxCount :
            /\ op' = "SplitInPayables"
            /\ arg' = [NoArg EXCEPT !.p = p, !.count = count]
            /\ ret' = [NoRet EXCEPT !.parts = SplitInPayables(p, count).parts,
                                    !.err = SplitInPayables(p, count).err]
            /\ UNCHANGED <<arch, ledgerVars>>

\* after r := p.GetPayableByRoundingMode(mode, precision):
\* r2 := r.GetPayableByRoundingMode(mode, precision)
CallRoundAgain ==
    /\ op = "GetPayableByRoundingMode"
    /\ op' = "RoundAgain"
    /\ arg' = [arg EXCEPT !.q = ret.price]
    /\ ret' = [NoRet EXCEPT !.price =
                   GetPayableByRoundingMode(ret.price, arg.mode, arg.precision)]
    /\ UNCHANGED <<arch, ledgerVars>>

\* after r := p.GetPayable(): ok := r.IsPayable()
CallIsPayable ==
    /\ op = "GetPayable"
    /\ op' = "IsPayable"
    /\ arg' = [arg EXCEPT !.q = ret.price]
    /\ ret' = [NoRet EXCEPT !.ok = IsPayable(ret.price)]
    /\ UNCHANGED <<arch, ledgerVars>>

\* the reorderings of a sequence of prices
Reorderings(prices) ==
    {[i \in 1..Len(prices) |-> prices[perm[i]]] :
        perm \in Permutations(1..Len(prices))}

\* after r, err := SumAll(prices...): r2, err2 := SumAll(reordered...) for a
\* reordering of the same prices; the first outcome is kept in ret.first
CallSumAllReordered ==
    /\ op = "SumAll"
    /\ Len(arg.prices) >= 1
    /\ \E reordered \in Reorderings(arg.prices) :
            /\ op' = "SumAllReordered"
            /\ arg' = [arg EXCEPT !.reordered = reordered]
            /\ ret' = [NoRet EXCEPT !.price = SumAll(reordered).price,
                                    !.err = SumAll(reordered).err,
                                    !.first = [price |-> ret.price,
                                               err |-> ret.err]]
            /\ UNCHANGED <<arch, ledgerVars>>

\* text, _ := p.MarshalText(); err := r.UnmarshalText(text)
CallMarshalText ==
    /\ op = "init"
    /\ \E p \in MarshalInputs :
            /\ op' = "MarshalText"
            /\ arg' = [NoArg EXCEPT !.p = p]
            /\ ret' = [NoRet EXCEPT !.price = UnmarshalText(MarshalText(p))]
            /\ UNCHANGED <<arch, ledgerVars>>

\* r, err := SumAll(prices...)
CallSumAll ==
    /\ op = "init"
    /\ \E prices \in SumArguments :
            /\ op' = "SumAll"
            /\ arg' = [NoArg EXCEPT !.prices = prices]
            /\ ret' = [NoRet EXCEPT !.price = SumAll(prices).price,
                                    !.err = SumAll(prices).err]
            /\ UNCHANGED <<arch, ledgerVars>>

Next ==
    \/ CallAdd
    \/ CallSub
    \/ CallSubBack
    \/ CallGetPayableByRoundingMode
    \/ CallGetPayable
    \/ CallSplitInPayables
    \/ CallSumAll
    \/ CallSumAllReordered
    \/ CallMarshalText
    \/ CallRoundAgain
    \/ CallIsPayable

Spec == Init /\ [][Next]_vars

----------------------------------------------------------------------------
(* The ledger: the caller holds Charges values in the variables L and L2   *)
(* and assigns the result of each call to one of them.                     *)

\* number of ledger calls in a run
MaxSteps == 2

ChargeInputs ==
    {Charge(NewFromInt(1, 1, "EUR"), NewFromInt(2, 1, "EUR"), ChargeTypeMain, ""),
     Charge(NewFromFloat(Lit(4, 1000), "EUR"), NewFromFloat(Lit(4, 1000), "EUR"),
            ChargeTypeMain, ""),
     Charge(NewFromInt(1, 1, "USD"), NewFromInt(1, 1, "EUR"), ChargeTypeMain, ""),
     Charge(NewFromInt(1, 1, "EUR"), ZeroValuePrice, ChargeTypeMain, "r1"),
     Charge(NewFromInt(3, 1, "EUR"), NewFromInt(3, 1, "EUR"), ChargeTypeGiftCard, "")}

\* the charges given to NewCharges, under either type as the map's key
NewChargesInputs ==
    {Charge(NewFromInt(1, 1, "EUR"), NewFromInt(2, 1, "EUR"), ChargeTypeMain, ""),
     Charge(NewFromInt(3, 1, "EUR"), NewFromInt(3, 1, "EUR"), ChargeTypeGiftCard, "r1")}

ChargeTypes == {ChargeTypeMain, ChargeTypeGiftCard}

Quantities == {2, -1}

References == {"", "r1"}

\* L is Charges{} or was built by NewCharges; L2 is Charges{}
LedgerInit ==
    /\ arch = "amd64"
    /\ op = "init"
    /\ arg = NoArg
    /\ ret = NoRet
    /\ \/ heap = <<>> /\ ledgers = [n \in LedgerNames |-> 0]
       \/ \E c \in ChargeInputs :
            /\ heap = <<addChargeQualifier(c.Type, c)>>
            /\ ledgers = [n \in LedgerNames |-> IF n = "L" THEN 1 ELSE 0]
    /\ before = [n \in LedgerNames |-> {}]
    /\ lcall = NoCall
    /\ lret = NoLookup
    /\ steps = 0

\* a run is a sequence of at most MaxSteps calls that build ledgers, and then
\* a lookup: a lookup changes no ledger, so the calls after it are those
\* that could be made before it
Reading == lcall.op \in {"GetByType", "GetByChargeQualifier"}

CanCall == steps < MaxSteps /\ ~Reading

\* the receiver's map becomes m and the returned Charges value is assigned to
\* dst: a nil map is replaced by a fresh one in the receiver's copy only, any
\* other map is written in place
WriteThrough(src, dst, m) ==
    IF ledgers[src] = 0
    THEN /\ heap' = Append(heap, m)
         /\ ledgers' = [ledgers EXCEPT ![dst] = Len(heap) + 1]
    ELSE /\ heap' = [heap EXCEPT ![ledgers[src]] = m]
         /\ ledgers' = [ledgers EXCEPT ![dst] = ledgers[src]]

Called(name, src, dst, other, charge, key, qty) ==
    /\ before' = [n \in LedgerNames |-> Observable(n)]
    /\ lcall' = [op |-> name, src |-> src, dst |-> dst, other |-> other,
                 charge |-> charge, key |-> key, qty |-> qty]
    /\ lret' = NoLookup
    /\ steps' = steps + 1
    /\ UNCHANGED priceVars

\* dst = NewCharges(map[string]Charge{chargeType: charge})
CallNewCharges ==
    /\ CanCall
    /\ \E dst \in LedgerNames, chargeType \in ChargeTypes, charge \in NewChargesInputs :
            /\ heap' = Append(heap, addChargeQualifier(chargeType, charge))
            /\ ledgers' = [ledgers EXCEPT ![dst] = Len(heap) + 1]
            /\ Called("NewCharges", dst, dst, dst, charge, chargeType, 0)

\* dst = src.AddCharge(toadd)
CallAddCharge ==
    /\ CanCall
    /\ \E src \in LedgerNames, dst \in LedgerNames, toadd \in ChargeInputs :
            /\ WriteThrough(src, dst,
                   MergeCharge(Observable(src),
                       ChargeQualifier(toadd.Type, toadd.Reference), toadd))
            /\ Called("AddCharge", src, dst, src, toadd, "", 0)

\* dst = src.Add(other)
CallChargesAdd ==
    /\ CanCall
    /\ \E src \in LedgerNames, dst \in LedgerNames, other \in LedgerNames :
            /\ WriteThrough(src, dst, MergeAll(Observable(src), Observable(other)))
            /\ Called("Add", src, dst, other, ZeroValueCharge, "", 0)

\* dst = src.Mul(qty)
CallChargesMul ==
    /\ CanCall
    /\ \E src \in LedgerNames, dst \in LedgerNames, qty \in Quantities :
            /\ IF ledgers[src] = 0
               THEN /\ heap' = heap
                    /\ ledgers' = [ledgers EXCEPT ![dst] = 0]
               ELSE WriteThrough(src, dst, MulAll(Observable(src), qty))
            /\ Called("Mul", src, dst, src, ZeroValueCharge, "", qty)

NextLedger ==
    \/ CallNewCharges
    \/ CallAddCharge
    \/ CallChargesAdd
    \/ CallChargesMul

SpecLedger == LedgerInit /\ [][NextLedger]_vars

----------------------------------------------------------------------------
(* Lookups: the caller builds one Charges value, held in L, and reads it.  *)

\* L = NewCharges(...), L = L.AddCharge(c), L = L.Add(L), L = L.Mul(qty)
BuildNewCharges ==
    /\ CanCall
    /\ \E chargeType \in ChargeTypes, charge \in NewChargesInputs :
            /\ heap' = Append(heap, addChargeQualifier(chargeType, charge))
            /\ ledgers' = [ledgers EXCEPT !["L"] = Len(heap) + 1]
            /\ Called("NewCharges", "L", "L", "L", charge, chargeType, 0)

BuildAddCharge ==
    /\ CanCall
    /\ \E toadd \in ChargeInputs :
            /\ WriteThrough("L", "L",
                   MergeCharge(Observable("L"),
                       ChargeQualifier(toadd.Type, toadd.Reference), toadd))
            /\ Called("AddCharge", "L", "L", "L", toadd, "", 0)

BuildAdd ==
    /\ CanCall
    /\ WriteThrough("L", "L", MergeAll(Observable("L"), Observable("L")))
    /\ Called("Add", "L", "L", "L", ZeroValueCharge, "", 0)

BuildMul ==
    /\ CanCall
    /\ ledgers["L"] # 0
    /\ \E qty \in Quantities :
            /\ WriteThrough("L", "L", MulAll(Observable("L"), qty))
            /\ Called("Mul", "L", "L", "L", ZeroValueCharge, "", qty)

\* a lookup on src: the ledger is only read
Looked(name, src, key, reference) ==
    /\ before' = [n \in LedgerNames |-> Observable(n)]
    /\ lcall' = [op |-> name, src |-> src, dst |-> src, other |-> src,
                 charge |-> Charge(ZeroValuePrice, ZeroValuePrice, key, reference),
                 key |-> key, qty |-> 0]
    /\ UNCHANGED <<heap, ledgers, steps>>
    /\ UNCHANGED priceVars

\* src.GetByType(ctype) and src.GetByTypeForced(ctype), the map visited in
\* one of its possible orders
CallGetByType ==
    /\ ~Reading
    /\ \E src \in {"L"}, ctype \in ChargeTypes :
        \E order \in Orders(GetAllByType(Observable(src), ctype)) :
            /\ lret' = [charge |-> GetByType(Observable(src), ctype, order).charge,
                        found |-> GetByType(Observable(src), ctype, order).found,
                        forced |-> GetByTypeForced(Observable(src), ctype, order),
                        order |-> order]
            /\ Looked("GetByType", src, ctype, "")

\* src.GetByChargeQualifier(q) and src.GetByChargeQualifierForced(q)
CallGetByChargeQualifier ==
    /\ ~Reading
    /\ \E src \in {"L"}, ctype \in ChargeTypes, reference \in References :
        /\ lret' = [charge |-> GetByChargeQualifier(Observable(src),
                                   ChargeQualifier(ctype, reference)).charge,
                    found |-> GetByChargeQualifier(Observable(src),
                                  ChargeQualifier(ctype, reference)).found,
                    forced |-> GetByChargeQualifierForced(Observable(src),
                                   ChargeQualifier(ctype, reference)),
                    order |-> <<>>]
        /\ Looked("GetByChargeQualifier", src, ctype, reference)

NextLookup ==
    \/ BuildNewCharges
    \/ BuildAddCharge
    \/ BuildAdd
    \/ BuildMul
    \/ CallGetByType
    \/ CallGetByChargeQualifier

SpecLookup == LedgerInit /\ [][NextLookup]_vars

----------------------------------------------------------------------------
(* Claims *)

\* the exact value of amount * precision
ExactScaled(p, precision) == Norm(p.amount.m * precision, p.amount.e)

Half == [m |-> 1, e |-> -1]

\* x rounded to an integer: the magnitude goes up when the discarded fraction
\* is >= 1/2, the sign is kept
NearestHalfUp(x) ==
    SignI(x.m) * (DTrunc(DAbs(x)) + IF DCmp(DFrac(DAbs(x)), Half) >= 0 THEN 1 ELSE 0)

\* the same, the magnitude going up only when the discarded fraction is > 1/2
NearestHalfDown(x) ==
    SignI(x.m) * (DTrunc(DAbs(x)) + IF DCmp(DFrac(DAbs(x)), Half) > 0 THEN 1 ELSE 0)

\* the greatest integer <= x
FloorOf(x) == IF x.m < 0 /\ DFrac(x).m # 0 THEN DTrunc(x) - 1 ELSE DTrunc(x)

\* the least integer >= x
CeilOf(x) == IF x.m > 0 /\ DFrac(x).m # 0 THEN DTrunc(x) + 1 ELSE DTrunc(x)

\* amount * precision stays below the guard of GetPayableByRoundingMode
BelowGuard(p, precision) == Msb(ExactScaled(p, precision)) < IntBits - 1

\* C1: for every price p and every count n >= 1, SplitInPayables(n) succeeds
\* and returns exactly n prices whose sum is exactly equal to p.GetPayable().
C1_SplitSumExact ==
    (op = "SplitInPayables" /\ arg.count >= 1) =>
        /\ ~ret.err
        /\ Len(ret.parts) = arg.count
        /\ ~SumAll(ret.parts).err
        /\ Equal(SumAll(ret.parts).price, GetPayable(arg.p))

\* C2: after dst = src.Add(M), src.AddCharge(c) or src.Mul(q), every Charges
\* value other than the one assigned, that held entries before the call,
\* shows the same entries as before the call.
C2_SnapshotsIsolated ==
    lcall.op \in {"Add", "AddCharge", "Mul"} =>
        \A n \in LedgerNames :
            (n # lcall.dst /\ before[n] # {}) => Observable(n) = before[n]

\* C3: Add and Sub return an error exactly when the operands have different
\* currencies and neither is zero-valued (IsZero); then the price returned is
\* the zero price of the receiver's currency and no sum or difference; in
\* every other case they succeed.
C3_MismatchError ==
    op \in {"Add", "Sub"} =>
        /\ ret.err <=> (/\ arg.p.currency # arg.q.currency
                        /\ ~IsZero(arg.p)
                        /\ ~IsZero(arg.q))
        /\ ret.err => ret.price = NewZero(arg.p.currency)

\* a call of Add on two non-zero prices of different currencies, which failed
C3_Witness ==
    /\ op = "Add"
    /\ arg.p.currency # arg.q.currency
    /\ ~IsZero(arg.p)
    /\ ~IsZero(arg.q)
    /\ ret.err

\* C4: for every price a with a.IsZero() and every price b, a.Add(b) succeeds
\* and the result is Equal to b.
C4_ZeroNeutral ==
    (op = "Add" /\ IsZero(arg.p)) => (~ret.err /\ Equal(ret.price, arg.q))

\* C5: for all prices a and b of equal currency, a.Add(b) succeeds,
\* subtracting b from the result succeeds, and the final price is Equal to a.
C5_AddSubRoundTrip ==
    /\ (op = "Add" /\ arg.p.currency = arg.q.currency) => ~ret.err
    /\ (op = "AddSub" /\ arg.p.currency = arg.q.currency) =>
            (~ret.err /\ Equal(ret.price, arg.p))

\* C6: with mode HalfUp the result is the multiple of 1/precision nearest to
\* the amount, the magnitude rounded up exactly when the discarded fraction of
\* amount * precision is >= 0.5.
C6_HalfUpNearest ==
    (/\ op = "GetPayableByRoundingMode"
     /\ arg.mode = RoundingModeHalfUp
     /\ BelowGuard(arg.p, arg.precision)) =>
        Equal(ret.price,
              NewFromInt(NearestHalfUp(ExactScaled(arg.p, arg.precision)),
                         arg.precision, arg.p.currency))

\* C7: with mode HalfDown the magnitude is rounded up exactly when the
\* discarded fraction of amount * precision is > 0.5, and down otherwise.
C7_HalfDownNearest ==
    (/\ op = "GetPayableByRoundingMode"
     /\ arg.mode = RoundingModeHalfDown
     /\ BelowGuard(arg.p, arg.precision)) =>
        Equal(ret.price,
              NewFromInt(NearestHalfDown(ExactScaled(arg.p, arg.precision)),
                         arg.precision, arg.p.currency))

\* C8: with mode Floor the result is the greatest multiple of 1/precision
\* that is <= the amount.
C8_FloorGreatestBelow ==
    (/\ op = "GetPayableByRoundingMode"
     /\ arg.mode = RoundingModeFloor
     /\ BelowGuard(arg.p, arg.precision)) =>
        Equal(ret.price,
              NewFromInt(FloorOf(ExactScaled(arg.p, arg.precision)),
                         arg.precision, arg.p.currency))

\* C9: with mode Ceil the result is the least multiple of 1/precision that
\* is >= the amount.
C9_CeilLeastAbove ==
    (/\ op = "GetPayableByRoundingMode"
     /\ arg.mode = RoundingModeCeil
     /\ BelowGuard(arg.p, arg.precision)) =>
        Equal(ret.price,
              NewFromInt(CeilOf(ExactScaled(arg.p, arg.precision)),
                         arg.precision, arg.p.currency))

\* what the merge rule makes of the entry under key k when charge c is added
\* to the map pre: the claim's add-then-round, or c itself
MergeRuleHolds(pre, post, k, c) ==
    /\ MapHas(post, k)
    /\ IF MapHas(pre, k)
       THEN /\ MapAt(post, k).Type = MapAt(pre, k).Type
            /\ MapAt(post, k).Reference = MapAt(pre, k).Reference
            /\ ~Add(MapAt(pre, k).Price, c.Price).err
            /\ ~Add(MapAt(pre, k).Value, c.Value).err
            /\ Equal(MapAt(post, k).Price,
                     GetPayable(Add(MapAt(pre, k).Price, c.Price).price))
            /\ Equal(MapAt(post, k).Value,
                     GetPayable(Add(MapAt(pre, k).Value, c.Value).price))
       ELSE MapAt(post, k) = c

\* C10: AddCharge(c), and Add(M) for each entry c of M, replace an entry e
\* held under c's qualifier by a charge of the same type and reference with
\* price GetPayable(e.price + c.price) and value GetPayable(e.value + c.value),
\* store c unchanged when there is none, and leave every other entry as it was.
C10_MergeRule ==
    /\ lcall.op = "AddCharge" =>
            /\ MergeRuleHolds(before[lcall.src], Observable(lcall.dst),
                   ChargeQualifier(lcall.charge.Type, lcall.charge.Reference),
                   lcall.charge)
            /\ \A x \in before[lcall.src] :
                   x.key # ChargeQualifier(lcall.charge.Type, lcall.charge.Reference)
                       => x \in Observable(lcall.dst)
            /\ MapKeys(Observable(lcall.dst)) =
                   MapKeys(before[lcall.src])
                   \cup {ChargeQualifier(lcall.charge.Type, lcall.charge.Reference)}
    /\ lcall.op = "Add" =>
            /\ \A y \in before[lcall.other] :
                   MergeRuleHolds(before[lcall.src], Observable(lcall.dst),
                                  y.key, y.charge)
            /\ \A x \in before[lcall.src] :
                   x.key \notin MapKeys(before[lcall.other])
                       => x \in Observable(lcall.dst)
            /\ MapKeys(Observable(lcall.dst)) =
                   MapKeys(before[lcall.src]) \cup MapKeys(before[lcall.other])

\* the exact sum of two binary numbers
ExactAdd(x, y) ==
    Norm(Aligned(x, MinI(x.e, y.e)).v + Aligned(y, MinI(x.e, y.e)).v, MinI(x.e, y.e))

\* the exact sum of the amounts of prices[i..]
RECURSIVE ExactSumFrom(_, _)
ExactSumFrom(prices, i) ==
    IF i > Len(prices) THEN DZero
    ELSE ExactAdd(Val(prices[i].amount), ExactSumFrom(prices, i + 1))

\* p is the sum of the prices: the exact sum of their amounts, in the
\* currency of those that are not zero
IsSumOf(p, prices) ==
    /\ DCmp(Val(p.amount), ExactSumFrom(prices, 1)) = 0
    /\ \A i \in 1..Len(prices) :
           Val(prices[i].amount).m # 0 => prices[i].currency = p.currency

\* C11: when the ledger holds an entry of type t, GetByType(t) reports it
\* found and returns a charge of type t whose price and value are the sums
\* of the prices and of the values of the entries of type t, whatever the
\* order in which the map is visited.
C11_GetByTypeSums ==
    (lcall.op = "GetByType" /\ HasType(before[lcall.src], lcall.key)) =>
        /\ lret.found
        /\ lret.charge.Type = lcall.key
        /\ IsSumOf(lret.charge.Price,
                   [i \in 1..Len(lret.order) |-> lret.order[i].charge.Price])
        /\ IsSumOf(lret.charge.Value,
                   [i \in 1..Len(lret.order) |-> lret.order[i].charge.Value])
        /\ \A o \in Orders(GetAllByType(before[lcall.src], lcall.key)) :
               GetByType(before[lcall.src], lcall.key, o).charge = lret.charge

\* the qualifier a lookup was called with
LookedQualifier == ChargeQualifier(lcall.charge.Type, lcall.charge.Reference)

\* C17: GetByType(t) reports found exactly when an entry has qualifier type
\* t; GetByChargeQualifier(q) reports found exactly when an entry is stored
\* under q and then returns that stored charge; when not found both return
\* the zero-value Charge; the Forced variants return the same Charge.
C17_LookupsFaithful ==
    /\ lcall.op = "GetByType" =>
            /\ lret.found <=> (\E x \in before[lcall.src] : x.key.Type = lcall.key)
            /\ ~lret.found => lret.charge = ZeroValueCharge
            /\ lret.forced = lret.charge
    /\ lcall.op = "GetByChargeQualifier" =>
            /\ lret.found <=> (\E x \in before[lcall.src] : x.key = LookedQualifier)
            /\ lret.found =>
                   [key |-> LookedQualifier, charge |-> lret.charge] \in before[lcall.src]
            /\ ~lret.found => lret.charge = ZeroValueCharge
            /\ lret.forced = lret.charge

\* a lookup by qualifier that found its entry in a ledger holding another
\* entry of the same type
C17_Witness ==
    /\ lcall.op = "GetByChargeQualifier"
    /\ lret.found
    /\ \E x \in before[lcall.src] :
           x.key.Type = LookedQualifier.Type /\ x.key # LookedQualifier

\* C19: in every reachable state, every Charge stored under qualifier (t, r)
\* has Type = t and Reference = r.
C19_KeyConsistency ==
    \A n \in LedgerNames :
        \A x \in Observable(n) :
            x.charge.Type = x.key.Type /\ x.charge.Reference = x.key.Reference

\* the spellings of the loyalty currencies
LoyaltyCodes == {"miles", "Miles", "points", "POINTS"}

\* C12: GetPayable rounds a price whose currency is "miles" or "points", in
\* any letter case, with (Floor, 1) and a price of every other currency with
\* (HalfUp, 100); the result keeps the price's currency.
C12_PayablePolicy ==
    op = "GetPayable" =>
        /\ ret.price.currency = arg.p.currency
        /\ ret.price =
               IF arg.p.currency \in LoyaltyCodes
               THEN GetPayableByRoundingMode(arg.p, RoundingModeFloor, 1)
               ELSE GetPayableByRoundingMode(arg.p, RoundingModeHalfUp, 100)

\* GetPayable of a price in "POINTS" whose amount (Floor, 1) and
\* (HalfUp, 100) round apart
C12_Witness ==
    /\ op = "GetPayable"
    /\ arg.p.currency = "POINTS"
    /\ ~Equal(GetPayableByRoundingMode(arg.p, RoundingModeFloor, 1),
              GetPayableByRoundingMode(arg.p, RoundingModeHalfUp, 100))
    /\ Equal(ret.price, GetPayableByRoundingMode(arg.p, RoundingModeFloor, 1))

\* C14: SplitInPayables(count) with count <= 0 returns an error and no parts,
\* for every price.
C14_SplitCountRejected ==
    (op = "SplitInPayables" /\ arg.count <= 0) => (ret.err /\ ret.parts = <<>>)

\* a split of a non-zero price in zero parts, rejected
C14_Witness ==
    /\ op = "SplitInPayables"
    /\ arg.count = 0
    /\ ~IsZero(arg.p)
    /\ ret.err

\* the payable magnitude of p in smallest units
PayableUnits(p) ==
    AbsI(NearestHalfUp(ExactScaled(GetPayable(p), payableRoundingPrecision(p).precision)))

\* the sign of p's amount
SignOf(p) == SignI(Val(p.amount).m)

RECURSIVE FoldTo(_, _)
FoldTo(prices, i) ==
    IF i = 1 THEN [price |-> prices[1], err |-> FALSE]
    ELSE IF FoldTo(prices, i - 1).err THEN FoldTo(prices, i - 1)
    ELSE Add(FoldTo(prices, i - 1).price, prices[i])

\* C13: SumAll with no arguments returns an error; SumAll(a) returns a price
\* equal to a; SumAll over several prices of one currency returns their exact
\* sum in that currency; and SumAll fails exactly when an Add of the
\* left-to-right fold fails for its currencies.
C13_SumAll ==
    op = "SumAll" =>
        /\ Len(arg.prices) = 0 => ret.err
        /\ Len(arg.prices) = 1 => (~ret.err /\ Equal(ret.price, arg.prices[1]))
        /\ (/\ Len(arg.prices) >= 2
            /\ \A i \in 1..Len(arg.prices) :
                   arg.prices[i].currency = arg.prices[1].currency) =>
               /\ ~ret.err
               /\ ret.price.currency = arg.prices[1].currency
               /\ IsSumOf(ret.price, arg.prices)
        /\ Len(arg.prices) >= 1 =>
               (ret.err <=> FoldTo(arg.prices, Len(arg.prices)).err)

\* C16: whenever the magnitude of amount * precision exceeds the largest
\* int64, for a positive or a negative amount, GetPayableByRoundingMode
\* returns the amount and the currency unchanged, for every mode.
C16_GuardBothSigns ==
    (op = "GetPayableByRoundingMode" /\ ~BelowGuard(arg.p, arg.precision)) =>
        /\ Equal(ret.price, arg.p)
        /\ ret.price.amount = arg.p.amount

\* C20: for every price below the guard, every mode and every precision,
\* rounding the rounded price again with the same mode and precision returns
\* an equal price; and p.GetPayable().IsPayable() is true for every p.
C20_RoundingIdempotent ==
    /\ (op = "RoundAgain" /\ BelowGuard(arg.p, arg.precision)) =>
            Equal(ret.price, arg.q)
    /\ op = "IsPayable" => ret.ok

\* a price that rounding changed, rounded again
C20_Witness ==
    /\ op = "RoundAgain"
    /\ BelowGuard(arg.p, arg.precision)
    /\ arg.mode = RoundingModeHalfUp
    /\ ~Equal(arg.q, arg.p)
    /\ Equal(ret.price, arg.q)

\* C15: encoding then decoding is a round trip: for every price p,
\* UnmarshalText applied to MarshalText(p) succeeds and yields a price Equal
\* to p, the same exact amount and the same currency.
C15_MarshalRoundTrip ==
    op = "MarshalText" =>
        /\ ~ret.err
        /\ Equal(ret.price, arg.p)

\* C21: SumAll is independent of argument order: for every non-empty sequence
\* of prices, every reordering gives the same outcome, either both calls fail
\* or both succeed with Equal results (same amount, same currency); in
\* particular a.Add(b) and b.Add(a) agree.
C21_SumAllOrderIndependent ==
    op = "SumAllReordered" =>
        /\ ret.err <=> ret.first.err
        /\ ~ret.err => Equal(ret.price, ret.first.price)

====
